---- MODULE Spec2Model ----
(***************************************************************************)
(* Monaco Archive Tool (monaco_archive.py).                                *)
(*                                                                         *)
(* The tool is a Streamlit script: every user interaction (a button click  *)
(* or a widget change) runs main() from top to bottom against the live     *)
(* filesystem.  Between runs only session_state (patient_directories,      *)
(* weeks_since_touched) and the widget values (chosen site, number of      *)
(* weeks to keep) survive.  One action of this model is one such run; the  *)
(* operator at the file explorer changes the filesystem in between.        *)
(*                                                                         *)
(* A path under a site's clinic root is the pair <<site, name>>; the       *)
(* holding and archive roots of a site are modelled by the sets of entry   *)
(* names they contain.  Sites are assumed to have distinct roots.          *)
(*                                                                         *)
(* A button can be pressed only if the latest run rendered it; a run that  *)
(* stops (st.stop()) or raises renders nothing after that point.  The      *)
(* value of the number input is taken to survive runs that do not reach    *)
(* it.  The directory names of the tool runs all have exactly one "~", so  *)
(* the sorted listing of lines 78-81 never raises there; the sort key is   *)
(* modelled on its own, on names given as code points (SpecKey).           *)
(***************************************************************************)
EXTENDS Integers, Sequences, FiniteSets, TLC

VARIABLES
    chosen_site,          \* st.radio("Site", ...)
    weeks_to_keep,        \* st.number_input("Number of weeks to keep", ...)
    patient_directories,  \* session_state.patient_directories (a tuple of paths)
    weeks_since_touched,  \* session_state.weeks_since_touched (a dict, in insertion order)
    clinic,               \* filesystem: the patient directories under each clinic root
    holding,              \* filesystem: the entries of each site's holding root
    archive,              \* filesystem: the entries of each site's archive destination
    rendered,             \* the widgets the latest run of main() put on the page
    exception,            \* how the latest run of main() ended
    report,               \* what the latest run's "Test moves" block reported
    button,               \* the interaction that triggered the latest run
    fresh,                \* TRUE while the filesystem is as the latest run left it
    env_steps,            \* number of filesystem changes made outside the tool
    name_a, name_b,       \* sort-key check: two directory names (code points)
    key_a, key_b          \* sort-key check: their keys

vars == <<chosen_site, weeks_to_keep, patient_directories, weeks_since_touched,
          clinic, holding, archive, rendered, exception, report, button, fresh,
          env_steps, name_a, name_b, key_a, key_b>>

tool_vars == <<chosen_site, weeks_to_keep, patient_directories, weeks_since_touched,
               clinic, holding, archive, rendered, exception, report, button, fresh,
               env_steps>>

key_vars == <<name_a, name_b, key_a, key_b>>

---------------------------------------------------------------------------
(* Bounds and input sets *)

MaxWeeksToKeep == 2
MaxEnvSteps == 2

\* number_of_weeks_ago = (now - modified_times) / (60 * 60 * 24 * 7).  A number
\* of weeks is kept exactly, as the numerator of a fraction whose denominator
\* is SecondsPerWeek.
SecondsPerWeek == 60 * 60 * 24 * 7

Weeks(n) == n * SecondsPerWeek

Sites == {"A", "B"}
Names == {"1~P", "2~P"}
Stray == "stray"
Paths == Sites \X Names

None == 0 - 1

HalfWeek == SecondsPerWeek \div 2

\* The values time.time() takes in a run, in seconds; modification times are
\* seconds on the same clock.
Nows == {Weeks(10)}

\* A patient directory: whether it exists and the modification times of its
\* direct children demographic.*, one other file and the directory plan, and
\* of one child of plan (None: no such child).
Absent ==
    [exists |-> FALSE, demographic |-> None, other |-> None, plan |-> None,
     plan_child |-> None]

Dir(d, o, p, c) ==
    [exists |-> TRUE, demographic |-> d, other |-> o, plan |-> p, plan_child |-> c]

\* The filesystems the runs start from: the directories 1~P and 2~P of each
\* site's clinic root.
Tree(a1, a2, b1, b2) ==
    [p \in Paths |-> IF p = <<"A", "1~P">> THEN a1
                     ELSE IF p = <<"A", "2~P">> THEN a2
                     ELSE IF p = <<"B", "1~P">> THEN b1
                     ELSE b2]

InitialClinics ==
    {Tree(Dir(Weeks(0), Weeks(7), Weeks(9), None), Dir(Weeks(8), None, None, None),
          Absent, Absent),
     Tree(Dir(Weeks(7), None, Weeks(7), Weeks(10)), Dir(None, Weeks(9), None, None),
          Dir(Weeks(8) + HalfWeek, None, None, None), Absent)}

NoReport ==
    [ran |-> FALSE, left_behind |-> <<>>, not_in_archive |-> <<>>, success |-> FALSE]

---------------------------------------------------------------------------
(* Helpers on sequences *)

Range(seq) == {seq[i] : i \in 1..Len(seq)}

\* The orders in which a glob may list the set S.
Orders(S) ==
    {seq \in [1..Cardinality(S) -> S] : \A i, j \in 1..Cardinality(S) :
                                           seq[i] = seq[j] => i = j}

---------------------------------------------------------------------------
(* _weeks_since_touched *)

\* Variant: only the direct children are gathered.
ModifiedTimesDirectOnly(dir) ==
    IF dir.exists
    THEN SelectSeq(<<dir.demographic, dir.other, dir.plan>>, LAMBDA m : m # None)
    ELSE <<>>

\* list(current_patient_directory.glob("*")) + list(....joinpath("plan").glob("*")),
\* then os.path.getmtime of each.  A glob under a missing directory is empty.
ModifiedTimes(dir) ==
    LET direct == IF dir.exists
                  THEN SelectSeq(<<dir.demographic, dir.other, dir.plan>>,
                                 LAMBDA m : m # None)
                  ELSE <<>>
        in_plan == IF dir.exists /\ dir.plan # None
                   THEN SelectSeq(<<dir.plan_child>>, LAMBDA m : m # None)
                   ELSE <<>>
    IN  direct \o in_plan

RECURSIVE NpMin(_)
\* np.min of a non-empty array
NpMin(array) ==
    IF Len(array) = 1
    THEN array[1]
    ELSE LET rest == NpMin(Tail(array))
         IN  IF array[1] < rest THEN array[1] ELSE rest

\* (now - modified_times), the numerators of number_of_weeks_ago
NumberOfWeeksAgo(times, now) == [i \in 1..Len(times) |-> now - times[i]]

RECURSIVE WeeksSinceTouchedFrom(_, _, _, _)
\* The loop of _weeks_since_touched from index i on, acc being the dict so far.
\* np.min of an empty array raises ValueError, which leaves the function.
WeeksSinceTouchedFrom(directories, now, i, acc) ==
    IF i > Len(directories)
    THEN [raised |-> FALSE, value |-> acc]
    ELSE LET times == ModifiedTimes(clinic[directories[i]])
         IN  IF Len(times) = 0
             THEN [raised |-> TRUE, value |-> acc]
             ELSE WeeksSinceTouchedFrom(
                      directories, now, i + 1,
                      Append(acc, [dir |-> directories[i],
                                   weeks |-> NpMin(NumberOfWeeksAgo(times, now))]))

WeeksSinceTouched(directories, now) ==
    WeeksSinceTouchedFrom(directories, now, 1, <<>>)

---------------------------------------------------------------------------
(* _determine_directories_to_archive *)

\* Variant: weeks >= weeks_to_keep.
ExceedsOrEquals(weeks, to_keep) == weeks >= to_keep * SecondsPerWeek

\* weeks > weeks_to_keep, weeks being a fraction over SecondsPerWeek
Exceeds(weeks, to_keep) == weeks > to_keep * SecondsPerWeek

DetermineDirectoriesToArchive(weeks, to_keep) ==
    LET chosen == SelectSeq(weeks, LAMBDA e : Exceeds(e.weeks, to_keep))
    IN  [i \in 1..Len(chosen) |-> chosen[i].dir]

---------------------------------------------------------------------------
(* main *)

Keys(weeks) == {weeks[i].dir : i \in 1..Len(weeks)}

\* _get_weeks raises KeyError for a name whose path under the chosen clinic
\* is no key of the mapping.
GetWeeksDefined(site, names, weeks) ==
    \A i \in 1..Len(names) : <<site, names[i]>> \in Keys(weeks)

DirectoryNames(directories) == [i \in 1..Len(directories) |-> directories[i][2]]

Exists(path) == clinic[path].exists

\* Variant: the holding directory is not looked at.
AllowMoveButtonIgnoringHolding(to_archive, final_locations, holding_contents) ==
    /\ Len(to_archive) = 0
    /\ Len(final_locations) = 0

\* allow_move_button after lines 143-157 and 184-192, from directories_to_archive,
\* testing_final_locations and holding_directory_contents.  The assignment
\* allow_move_button = False is a statement of each loop's body, not of the
\* if inside it, so it runs once per selected directory.
AllowMoveButton(to_archive, final_locations, holding_contents) ==
    /\ Len(to_archive) = 0
    /\ Len(final_locations) = 0
    /\ holding_contents = {}

\* The prefixes of the moving plan that shutil.move can carry out: moving a
\* missing source raises, and any move may fail in the filesystem.
MoveOutcomes(moving_plan) ==
    {k \in 0..Len(moving_plan) : \A i \in 1..k : Exists(moving_plan[i][1])}

ClinicAfterMoves(moving_plan, k) ==
    [p \in Paths |-> IF \E i \in 1..k : moving_plan[i][1] = p THEN Absent ELSE clinic[p]]

HoldingAfterMoves(moving_plan, k) ==
    [s \in Sites |-> holding[s] \cup {moving_plan[i][2][2] : i \in
                                        {j \in 1..k : moving_plan[j][2][1] = s}}]

\* Variant: the archive is not looked at.
TestReportSourceOnly(directories_to_archive, testing_final_locations) ==
    LET left == SelectSeq(directories_to_archive, LAMBDA d : Exists(d))
    IN  [ran |-> TRUE, left_behind |-> left, not_in_archive |-> <<>>,
         success |-> (Len(left) = 0)]

\* The "Test moves" block
TestReport(directories_to_archive, testing_final_locations) ==
    LET left == SelectSeq(directories_to_archive, LAMBDA d : Exists(d))
        missing == SelectSeq(testing_final_locations,
                             LAMBDA t : ~(t[2] \in archive[t[1]]))
    IN  [ran |-> TRUE, left_behind |-> left, not_in_archive |-> missing,
         success |-> (Len(left) = 0 /\ Len(missing) = 0)]

\* How far a run of main() gets before the plan is shown.
Stage(site, directories, weeks, to_keep, raised) ==
    IF Len(directories) = 0 THEN "stop_no_directories"
    ELSE IF raised THEN "ValueError"
    ELSE IF Len(weeks) = 0 THEN "stop_no_weeks"
    ELSE IF ~GetWeeksDefined(site, DirectoryNames(directories), weeks)
         THEN "KeyError_all"
    ELSE IF ~GetWeeksDefined(
                site, DirectoryNames(DetermineDirectoriesToArchive(weeks, to_keep)),
                weeks)
         THEN "KeyError_selected"
    ELSE "plan"

\* One run of main(), triggered by the interaction b, with the widget values
\* and the session state as they are once lines 52-93 have run.
Script(b, site, directories, weeks, to_keep, raised) ==
    LET stage == Stage(site, directories, weeks, to_keep, raised)
        directories_to_archive == DetermineDirectoriesToArchive(weeks, to_keep)
        names == DirectoryNames(directories_to_archive)
        testing_final_locations == [i \in 1..Len(names) |-> <<site, names[i]>>]
        intermediate == [i \in 1..Len(names) |-> <<site, names[i]>>]
        moving_plan == [i \in 1..Len(names) |->
                           <<directories_to_archive[i], intermediate[i]>>]
        allow == AllowMoveButton(directories_to_archive, testing_final_locations,
                                 holding[site])
        moving == stage = "plan" /\ allow /\ b = "move"
    IN  /\ chosen_site' = site
        /\ patient_directories' = directories
        /\ weeks_since_touched' = weeks
        /\ weeks_to_keep' = to_keep
        /\ button' = b
        /\ fresh' = TRUE
        /\ archive' = archive
        /\ UNCHANGED <<env_steps, key_vars>>
        /\ \E k \in (IF moving THEN MoveOutcomes(moving_plan) ELSE {0}) :
              LET failed == moving /\ k < Len(moving_plan)
              IN  /\ clinic' = IF moving THEN ClinicAfterMoves(moving_plan, k) ELSE clinic
                  /\ holding' = IF moving THEN HoldingAfterMoves(moving_plan, k)
                                ELSE holding
                  /\ exception' =
                        IF stage = "ValueError" THEN "ValueError"
                        ELSE IF stage \in {"KeyError_all", "KeyError_selected"}
                             THEN "KeyError"
                        ELSE IF failed THEN "MoveError"
                        ELSE "none"
                  /\ rendered' =
                        IF stage = "stop_no_directories" THEN {}
                        ELSE IF stage \in {"ValueError", "stop_no_weeks", "KeyError_all"}
                             THEN {"calc"}
                        ELSE IF stage = "KeyError_selected"
                             THEN {"calc", "weeks_to_keep"}
                        ELSE {"calc", "weeks_to_keep"}
                             \cup (IF allow THEN {"move"} ELSE {})
                             \cup (IF failed THEN {} ELSE {"test"})
                  /\ report' =
                        IF stage = "plan" /\ b = "test"
                        THEN TestReport(directories_to_archive, testing_final_locations)
                        ELSE NoReport

\* st.radio("Site", ...) changed
ChooseSite ==
    \E site \in Sites \ {chosen_site} :
        Script("site", site, patient_directories, weeks_since_touched,
               weeks_to_keep, FALSE)

\* "Find Patient Directories": clinic.glob("*~*/demographic.*"), parents
Globbed(site) ==
    {p \in Paths : p[1] = site /\ clinic[p].exists /\ clinic[p].demographic # None}

\* Variant: a re-scan also forgets the staleness mapping.
FindPatientDirectoriesClearingWeeks ==
    \E found \in Orders(Globbed(chosen_site)) :
        Script("find", chosen_site, found, <<>>, weeks_to_keep, FALSE)

FindPatientDirectories ==
    \E found \in Orders(Globbed(chosen_site)) :
        Script("find", chosen_site, found, weeks_since_touched, weeks_to_keep, FALSE)

\* "Calculate weeks since touched via sub-directory modified check"
CalculateWeeksSinceTouched ==
    /\ "calc" \in rendered
    /\ \E now \in Nows :
          LET result == WeeksSinceTouched(patient_directories, now)
          IN  Script("calc", chosen_site, patient_directories,
                     IF result.raised THEN weeks_since_touched ELSE result.value,
                     weeks_to_keep, result.raised)

\* st.number_input("Number of weeks to keep", min_value=0, ...) changed
SetWeeksToKeep ==
    /\ "weeks_to_keep" \in rendered
    /\ \E to_keep \in (0..MaxWeeksToKeep) \ {weeks_to_keep} :
          Script("weeks_to_keep", chosen_site, patient_directories,
                 weeks_since_touched, to_keep, FALSE)

\* "Undergo move"
UndergoMove ==
    /\ "move" \in rendered
    /\ Script("move", chosen_site, patient_directories, weeks_since_touched,
              weeks_to_keep, FALSE)

\* "Test moves"
TestMoves ==
    /\ "test" \in rendered
    /\ Script("test", chosen_site, patient_directories, weeks_since_touched,
              weeks_to_keep, FALSE)

---------------------------------------------------------------------------
(* The filesystem changing outside the tool (the operator's file explorer) *)

Outside ==
    /\ env_steps < MaxEnvSteps
    /\ env_steps' = env_steps + 1
    /\ fresh' = FALSE
    /\ UNCHANGED <<chosen_site, weeks_to_keep, patient_directories,
                   weeks_since_touched, rendered, exception, report, button,
                   key_vars>>

DeleteChild ==
    \E p \in Paths, child \in {"demographic", "other", "plan"} :
        /\ clinic[p].exists
        /\ clinic[p][child] # None
        /\ clinic' = [clinic EXCEPT ![p] =
                         IF child = "plan"
                         THEN [@ EXCEPT !.plan = None, !.plan_child = None]
                         ELSE [@ EXCEPT ![child] = None]]
        /\ UNCHANGED <<holding, archive>>
        /\ Outside

ManualMoveToHolding ==
    \E p \in Paths :
        /\ clinic[p].exists
        /\ ~(p[2] \in holding[p[1]])
        /\ clinic' = [clinic EXCEPT ![p] = Absent]
        /\ holding' = [holding EXCEPT ![p[1]] = @ \cup {p[2]}]
        /\ UNCHANGED archive
        /\ Outside

ManualMoveToArchive ==
    \E site \in Sites, name \in Names :
        /\ name \in holding[site]
        /\ ~(name \in archive[site])
        /\ holding' = [holding EXCEPT ![site] = @ \ {name}]
        /\ archive' = [archive EXCEPT ![site] = @ \cup {name}]
        /\ UNCHANGED clinic
        /\ Outside

AddStray ==
    \E site \in Sites :
        /\ ~(Stray \in holding[site])
        /\ holding' = [holding EXCEPT ![site] = @ \cup {Stray}]
        /\ UNCHANGED <<clinic, archive>>
        /\ Outside

---------------------------------------------------------------------------
(* _patient_directory_sort_key.  A string is the sequence of its code points. *)

Tilde == 126
Dot == 46
Zero == 48
Plus == 43
Minus == 45
ZfillWidth == 6

RECURSIVE SplitFrom(_, _, _, _)
\* str.split(sep): the parts of s from index i on, part being the one in progress
SplitFrom(s, sep, i, part) ==
    IF i > Len(s)
    THEN <<part>>
    ELSE IF s[i] = sep
         THEN <<part>> \o SplitFrom(s, sep, i + 1, <<>>)
         ELSE SplitFrom(s, sep, i + 1, Append(part, s[i]))

Split(s, sep) == SplitFrom(s, sep, 1, <<>>)

\* Variant: no padding.
ZfillNone(s, width) == s

\* str.zfill(width): pads on the left with "0", after a leading sign, and
\* leaves a string of width or more characters as it is
Zfill(s, width) ==
    IF Len(s) >= width
    THEN s
    ELSE LET zeros == [i \in 1..(width - Len(s)) |-> Zero]
         IN  IF Len(s) > 0 /\ s[1] \in {Plus, Minus}
             THEN <<s[1]>> \o zeros \o Tail(s)
             ELSE zeros \o s

\* prepended_number, patient_id = name.split("~") raises ValueError unless
\* there are exactly two parts
PatientDirectorySortKey(patient_directory_name) ==
    LET parts == Split(patient_directory_name, Tilde)
    IN  IF Len(parts) # 2
        THEN [raised |-> TRUE, key |-> <<>>]
        ELSE [raised |-> FALSE,
              key |-> parts[2] \o <<Dot>> \o Zfill(parts[1], ZfillWidth)]

RECURSIVE StrLess(_, _)
\* a < b on Python strings: lexicographic on code points
StrLess(a, b) ==
    IF Len(b) = 0 THEN FALSE
    ELSE IF Len(a) = 0 THEN TRUE
    ELSE IF a[1] # b[1] THEN a[1] < b[1]
    ELSE StrLess(Tail(a), Tail(b))

\* Directory names to try: a sequence number, written in decimal with up to
\* MaxLeadingZeros zeros before it, "~", a patient id.
MaxLeadingZeros == 1

SequenceNumbers == {2, 3, 10, 999999, 1000000}

PatientIds == {<<80, 49>>, <<80, 50>>, <<80, Tilde, 49>>}

RECURSIVE Decimal(_)
Decimal(n) ==
    IF n < 10 THEN <<Zero + n>> ELSE Append(Decimal(n \div 10), Zero + (n % 10))

DirectoryName(n, zeros, patient_id) ==
    [i \in 1..zeros |-> Zero] \o Decimal(n) \o <<Tilde>> \o patient_id

DirectoryNameInputs ==
    {DirectoryName(n, z, p) : n \in SequenceNumbers, z \in 0..MaxLeadingZeros,
                              p \in PatientIds}

NotComputed == [raised |-> FALSE, key |-> <<>>]

\* key=_patient_directory_sort_key applied to a pair of names, as sorted() does
ComputeSortKeys ==
    /\ key_a = NotComputed
    /\ key_a' = PatientDirectorySortKey(name_a)
    /\ key_b' = PatientDirectorySortKey(name_b)
    /\ UNCHANGED <<name_a, name_b, tool_vars>>

---------------------------------------------------------------------------

InitTool ==
    /\ chosen_site = "A"
    /\ patient_directories = <<>>
    /\ weeks_since_touched = <<>>
    /\ holding = [s \in Sites |-> {}]
    /\ archive = [s \in Sites |-> {}]
    /\ rendered = {}
    /\ exception = "none"
    /\ report = NoReport
    /\ button = "start"
    /\ fresh = TRUE
    /\ env_steps = 0

Init ==
    /\ InitTool
    /\ weeks_to_keep \in 0..MaxWeeksToKeep
    /\ clinic \in InitialClinics
    /\ name_a = <<>>
    /\ name_b = <<>>
    /\ key_a = NotComputed
    /\ key_b = NotComputed

Next ==
    \/ ChooseSite
    \/ FindPatientDirectories
    \/ CalculateWeeksSinceTouched
    \/ SetWeeksToKeep
    \/ UndergoMove
    \/ TestMoves
    \/ DeleteChild
    \/ ManualMoveToHolding
    \/ ManualMoveToArchive
    \/ AddStray

Spec == Init /\ [][Next]_vars

\* The sort key on its own: every pair of input names, then their keys.
InitKey ==
    /\ InitTool
    /\ weeks_to_keep = 0
    /\ clinic = [p \in Paths |-> Absent]
    /\ name_a \in DirectoryNameInputs
    /\ name_b \in DirectoryNameInputs
    /\ key_a = NotComputed
    /\ key_b = NotComputed

NextKey == ComputeSortKeys

SpecKey == InitKey /\ [][NextKey]_vars

---------------------------------------------------------------------------
(* Properties *)

\* The selection the latest run showed
Selected == DetermineDirectoriesToArchive(weeks_since_touched, weeks_to_keep)

\* The run got as far as the moving plan
PlanShown == fresh /\ exception = "none" /\ "weeks_to_keep" \in rendered

\* The three preconditions of a move batch, on the filesystem as it is
SourcesExist(directories) == \A d \in Range(directories) : Exists(d)
NoDestinationExists(site, directories) ==
    \A d \in Range(directories) : ~(d[2] \in archive[site])
HoldingEmpty(site) == holding[site] = {}

\* The modification times _weeks_since_touched has to look at: those of the
\* direct children and of the children of plan
GatheredTimes(dir) ==
    IF dir.exists
    THEN {dir.demographic, dir.other, dir.plan, dir.plan_child} \ {None}
    ELSE {}

\* C1: archival selection returns exactly the directories of the mapping whose
\* staleness is strictly above the threshold, for every threshold T >= 0: a
\* directory whose staleness equals T is kept, T = 0 selects every directory
\* of positive staleness, and a T that is the largest staleness selects nothing.
C1_SelectionStrictlyAboveThreshold ==
    \A t \in 0..MaxWeeksToKeep :
        LET chosen == DetermineDirectoriesToArchive(weeks_since_touched, t)
            entries == Range(weeks_since_touched)
        IN  /\ Range(chosen) = {e.dir : e \in {x \in entries : x.weeks > Weeks(t)}}
            /\ \A e \in entries : e.weeks = Weeks(t) => ~(e.dir \in Range(chosen))
            /\ t = 0 => Range(chosen) = {e.dir : e \in {x \in entries : x.weeks > 0}}
            /\ (\A e \in entries : e.weeks <= Weeks(t)) => chosen = <<>>

\* C1 witness: the plan is shown with one directory whose staleness equals
\* the threshold (kept) next to one above it (selected).
C1_Witness ==
    /\ PlanShown
    /\ \E e \in Range(weeks_since_touched) :
          e.weeks = Weeks(weeks_to_keep) /\ ~(e.dir \in Range(Selected))
    /\ Selected # <<>>

\* C2: a run that finds a selected source missing, a final destination
\* already there, or an entry in the holding root does not offer the move and
\* moves nothing, whatever was clicked.
C2_BlockedBatchMovesNothing ==
    [][(/\ fresh'
        /\ LET chosen == DetermineDirectoriesToArchive(weeks_since_touched',
                                                       weeks_to_keep')
           IN  \/ ~SourcesExist(chosen)
               \/ ~NoDestinationExists(chosen_site', chosen)
               \/ ~HoldingEmpty(chosen_site'))
       => (/\ ~("move" \in rendered')
           /\ clinic' = clinic
           /\ holding' = holding
           /\ archive' = archive)]_vars

\* C2 witness: the plan is shown for a non-empty selection whose sources all
\* exist and whose destinations are all free, one stray entry lies in
\* holding, and the move is not offered.
C2_Witness ==
    /\ PlanShown
    /\ Selected # <<>>
    /\ SourcesExist(Selected)
    /\ NoDestinationExists(chosen_site, Selected)
    /\ holding[chosen_site] = {Stray}
    /\ ~("move" \in rendered)

\* C3: when the selection is non-empty and the three preconditions hold, the
\* move batch is allowed to execute.
C3_MoveAllowedWhenPreconditionsHold ==
    (/\ PlanShown
     /\ Selected # <<>>
     /\ SourcesExist(Selected)
     /\ NoDestinationExists(chosen_site, Selected)
     /\ HoldingEmpty(chosen_site))
    => "move" \in rendered

\* C4: "Test moves" looks at every selected directory: left behind iff it
\* still exists at its source, not in archive iff archive_root/name does not
\* exist, and overall success iff no selected directory fails either check.
C4_TestReportsEachDirectory ==
    /\ (fresh /\ button = "test" /\ exception = "none" /\ "test" \in rendered)
          => report.ran
    /\ (fresh /\ report.ran) =>
          /\ button = "test"
          /\ Range(report.left_behind) = {d \in Range(Selected) : Exists(d)}
          /\ Range(report.not_in_archive) =
                {<<chosen_site, d[2]>> : d \in
                    {x \in Range(Selected) : ~(x[2] \in archive[chosen_site])}}
          /\ report.success <=>
                \A d \in Range(Selected) :
                    ~Exists(d) /\ d[2] \in archive[chosen_site]

\* C4 witness: a selected directory is gone from its source and present in
\* the archive, and the test run reports success.
C4_Witness ==
    /\ fresh
    /\ report.ran
    /\ report.success
    /\ \E d \in Range(Selected) : ~Exists(d) /\ d[2] \in archive[chosen_site]

\* C5: a calculate run over directories that each have a gathered path records
\* for each, in order, the minimum of weeks-since-modified over its direct
\* children and the children of plan, and does not fail; a missing plan
\* contributes nothing.
C5_StalenessIsMinimumOverGathered ==
    [][(/\ fresh'
        /\ button' = "calc"
        /\ \A d \in Range(patient_directories) : GatheredTimes(clinic[d]) # {})
       => (/\ exception' # "ValueError"
           /\ Len(weeks_since_touched') = Len(patient_directories)
           /\ \E now \in Nows :
                 \A i \in 1..Len(patient_directories) :
                     LET e == weeks_since_touched'[i]
                         ages == {now - m : m \in
                                     GatheredTimes(clinic[patient_directories[i]])}
                     IN  /\ e.dir = patient_directories[i]
                         /\ e.weeks \in ages
                         /\ \A a \in ages : e.weeks <= a)]_vars

\* C5 witness: children modified 10, 3 and 1 weeks ago, the last one an empty
\* plan directory, give a recorded staleness of 1 week; next to it a
\* directory without plan has its staleness recorded too.
C5_Witness ==
    /\ fresh
    /\ button = "calc"
    /\ exception = "none"
    /\ clinic[<<"A", "1~P">>] = Dir(Weeks(0), Weeks(7), Weeks(9), None)
    /\ clinic[<<"A", "2~P">>].exists
    /\ clinic[<<"A", "2~P">>].plan = None
    /\ \E e \in Range(weeks_since_touched) :
          e.dir = <<"A", "1~P">> /\ e.weeks = Weeks(1)
    /\ \E e \in Range(weeks_since_touched) : e.dir = <<"A", "2~P">>

\* C6: a calculate run that meets a directory without any gathered path does
\* not abort: it records the staleness of the directories that have paths
\* and none for the one that has not.
C6_EmptyDirectoryFailsAlone ==
    [][(/\ fresh'
        /\ button' = "calc"
        /\ \E d \in Range(patient_directories) : GatheredTimes(clinic[d]) = {})
       => (/\ exception' # "ValueError"
           /\ Keys(weeks_since_touched') =
                 {d \in Range(patient_directories) :
                     GatheredTimes(clinic[d]) # {}})]_vars

\* Parts of a directory name "{sequence}~{patient_id}"
SequencePart(name) == Split(name, Tilde)[1]
PatientIdPart(name) == Split(name, Tilde)[2]
WellFormed(name) == Len(Split(name, Tilde)) = 2

RECURSIVE DecimalValue(_)
\* The number a string of decimal digits writes
DecimalValue(digits) ==
    IF Len(digits) = 0 THEN 0
    ELSE 10 * DecimalValue(SubSeq(digits, 1, Len(digits) - 1))
         + (digits[Len(digits)] - Zero)

KeysComputed == key_a # NotComputed

SamePatient ==
    /\ WellFormed(name_a)
    /\ WellFormed(name_b)
    /\ PatientIdPart(name_a) = PatientIdPart(name_b)

\* C7 as stated: for names with the same patient id the keys compare as the
\* sequence numbers do, whatever the sequence numbers are.
C7_KeyOrderIsNumericOrder ==
    (KeysComputed /\ SamePatient) =>
        /\ ~key_a.raised /\ ~key_b.raised
        /\ StrLess(key_a.key, key_b.key) <=>
              DecimalValue(SequencePart(name_a)) < DecimalValue(SequencePart(name_b))

\* C7 amended: the same for sequence numbers written with at most 6 digits;
\* the key is the patient id, a dot and the sequence padded to 6 digits.
C7_KeyOrderIsNumericOrderUpTo6Digits ==
    (/\ KeysComputed
     /\ SamePatient
     /\ Len(SequencePart(name_a)) <= ZfillWidth
     /\ Len(SequencePart(name_b)) <= ZfillWidth) =>
        /\ ~key_a.raised /\ ~key_b.raised
        /\ StrLess(key_a.key, key_b.key) <=>
              DecimalValue(SequencePart(name_a)) < DecimalValue(SequencePart(name_b))
        /\ LET id == PatientIdPart(name_a)
               padded == SubSeq(key_a.key, Len(id) + 2, Len(key_a.key))
           IN  /\ SubSeq(key_a.key, 1, Len(id) + 1) = id \o <<Dot>>
               /\ Len(padded) = ZfillWidth
               /\ DecimalValue(padded) = DecimalValue(SequencePart(name_a))

\* C7 witness: "3~P1" against "10~P1": the keys are computed and the key of
\* 3 is below the key of 10.
C7_Witness ==
    /\ KeysComputed
    /\ SamePatient
    /\ SequencePart(name_a) = <<51>>
    /\ SequencePart(name_b) = <<49, 48>>
    /\ StrLess(key_a.key, key_b.key)
    /\ ~StrLess(key_b.key, key_a.key)

\* C8: the staleness mapping changes only in a calculate run and the patient
\* directory set only in a re-scan run.
C8_SessionStateChangesOnlyOnItsAction ==
    [][/\ (weeks_since_touched' # weeks_since_touched)
             => (fresh' /\ button' = "calc")
       /\ (patient_directories' # patient_directories)
             => (fresh' /\ button' = "find")]_vars

\* C8 witness: the move button has been pressed and the run after it still
\* has the mapping and the directory set.
C8_Witness ==
    /\ fresh
    /\ button = "move"
    /\ weeks_since_touched # <<>>
    /\ Keys(weeks_since_touched) = Range(patient_directories)

\* C10: after site choices, re-scans and calculations, a non-empty staleness
\* mapping has exactly the stored patient directories as keys, all of them
\* under the chosen clinic root.
C10_MappingKeysAreTheListedDirectories ==
    (env_steps = 0 /\ weeks_since_touched # <<>>) =>
        /\ Keys(weeks_since_touched) = Range(patient_directories)
        /\ \A d \in Range(patient_directories) : d[1] = chosen_site

====
